---------------------------- MODULE Spec2Model ----------------------------
(***************************************************************************)
(* Model of src/index.js: a read-only HTTP JSON API over three tables      *)
(* (characters, episodes, quotes) loaded once at startup.                  *)
(*                                                                         *)
(* JavaScript strings that the code inspects character by character (path  *)
(* segments, query values, record fields) are sequences of one-character   *)
(* strings.  Strings the code only emits (error messages, header values)   *)
(* are TLA+ strings.                                                       *)
(***************************************************************************)
EXTENDS Integers, Sequences, FiniteSets, TLC

VARIABLES
    characters,   \* index.js:7   let characters
    episodes,     \* index.js:8   let episodes
    quotes,       \* index.js:9   let quotes
    phase,        \* "init" | "listening" | "responded" | "exited" | "crashed"
    req,          \* the request last delivered to handleRequest
    res,          \* what was written to its response object
    thrown,       \* the exception that escaped handleRequest, or "none"
    called,       \* the route handler handleRequest invoked, or "none"
    reads,        \* the tables the handling of req read
    arg,          \* filterByQuery called on its own: its arguments
    ret           \* filterByQuery called on its own: its result

vars == <<characters, episodes, quotes, phase, req, res, thrown, called, reads, arg, ret>>

tables == <<characters, episodes, quotes>>

-----------------------------------------------------------------------------
(* Bounds of the model *)

\* rows per loaded table
MaxRows == 2

\* Math.random() is drawn from {0/RandSteps, ..., (RandSteps-1)/RandSteps}
RandSteps == 4

-----------------------------------------------------------------------------
(* JavaScript strings *)

Digits == <<"0", "1", "2", "3", "4", "5", "6", "7", "8", "9">>

DigitChars == {Digits[i] : i \in 1..10}

DigitValue(c) == (CHOOSE i \in 1..10 : Digits[i] = c) - 1

HexLetters == <<"a", "b", "c", "d", "e", "f">>

HexUpper == <<"A", "B", "C", "D", "E", "F">>

IsHexDigit(c) ==
    \/ c \in DigitChars
    \/ \E i \in 1..6 : c = HexLetters[i] \/ c = HexUpper[i]

HexValue(c) ==
    IF c \in DigitChars THEN DigitValue(c)
    ELSE 9 + (CHOOSE i \in 1..6 : c = HexLetters[i] \/ c = HexUpper[i])

\* String.prototype.toLowerCase on the letters the model uses
LowerOf == [A |-> "a", B |-> "b", C |-> "c", D |-> "d", E |-> "e", F |-> "f", G |-> "g",
            H |-> "h", I |-> "i", J |-> "j", K |-> "k", L |-> "l", M |-> "m", N |-> "n",
            O |-> "o", P |-> "p", Q |-> "q", R |-> "r", S |-> "s", T |-> "t", U |-> "u",
            V |-> "v", W |-> "w", X |-> "x", Y |-> "y", Z |-> "z"]

toLowerCase(s) ==
    [i \in 1..Len(s) |-> IF s[i] \in DOMAIN LowerOf THEN LowerOf[s[i]] ELSE s[i]]

\* String.prototype.includes
includes(s, q) ==
    \E i \in 0..(Len(s) - Len(q)) : SubSeq(s, i + 1, i + Len(q)) = q

\* Number.prototype.toString for an integer
RECURSIVE NatToString(_)
NatToString(n) ==
    IF n < 10 THEN <<Digits[n + 1]>>
    ELSE NatToString(n \div 10) \o <<Digits[(n % 10) + 1]>>

numberToString(n) == IF n < 0 THEN <<"-">> \o NatToString(-n) ELSE NatToString(n)

\* Array.prototype.join(",") as String(array) performs it
RECURSIVE joinComma(_)
joinComma(a) ==
    IF a = <<>> THEN <<>>
    ELSE IF Len(a) = 1 THEN a[1]
    ELSE a[1] \o <<",">> \o joinComma(Tail(a))

-----------------------------------------------------------------------------
(* parseInt(string), no radix argument *)

NaN == [t |-> "NaN"]

Num(n) == [t |-> "num", v |-> n]

WhiteSpace == {" "}

RECURSIVE trimStart(_)
trimStart(s) ==
    IF s # <<>> /\ Head(s) \in WhiteSpace THEN trimStart(Tail(s)) ELSE s

\* the longest prefix of s made of characters satisfying the radix
RECURSIVE digitPrefix(_, _)
digitPrefix(s, radix) ==
    IF s # <<>> /\ (IF radix = 16 THEN IsHexDigit(Head(s)) ELSE Head(s) \in DigitChars)
    THEN <<Head(s)>> \o digitPrefix(Tail(s), radix)
    ELSE <<>>

RECURSIVE digitsValue(_, _)
digitsValue(d, radix) ==
    IF d = <<>> THEN 0
    ELSE digitsValue(SubSeq(d, 1, Len(d) - 1), radix) * radix + HexValue(d[Len(d)])

parseInt(str) ==
    LET s0    == trimStart(str)
        neg   == s0 # <<>> /\ Head(s0) = "-"
        s1    == IF s0 # <<>> /\ Head(s0) \in {"-", "+"} THEN Tail(s0) ELSE s0
        hex   == Len(s1) >= 2 /\ s1[1] = "0" /\ s1[2] \in {"x", "X"}
        radix == IF hex THEN 16 ELSE 10
        s2    == IF hex THEN SubSeq(s1, 3, Len(s1)) ELSE s1
        d     == digitPrefix(s2, radix)
    IN  IF d = <<>> THEN NaN
        ELSE Num((IF neg THEN -1 ELSE 1) * digitsValue(d, radix))

-----------------------------------------------------------------------------
(* Values of the request: url.parse(req.url, true) *)

\* a key of parsedUrl.query: missing, given once, or given several times
Absent == [t |-> "absent"]

Str(s) == [t |-> "str", v |-> s]

Arr(a) == [t |-> "arr", v |-> a]

\* JavaScript truthiness of a query value: undefined and "" are falsy
truthy(q) == q.t = "arr" \/ (q.t = "str" /\ q.v # <<>>)

\* String(value) as parseInt applies it to its argument
String(q) == IF q.t = "arr" THEN joinComma(q.v) ELSE q.v

\* String.prototype.split('/')
RECURSIVE split(_)
split(s) ==
    IF \A i \in 1..Len(s) : s[i] # "/" THEN <<s>>
    ELSE LET k == CHOOSE i \in 1..Len(s) : s[i] = "/" /\ \A j \in 1..(i - 1) : s[j] # "/"
         IN  <<SubSeq(s, 1, k - 1)>> \o split(SubSeq(s, k + 1, Len(s)))

\* parsedUrl.pathname.split('/').filter(part => part)
PathParts(pathname) == SelectSeq(split(pathname), LAMBDA part : part # <<>>)

api == <<"a", "p", "i">>

random == <<"r", "a", "n", "d", "o", "m">>

charactersSeg == <<"c", "h", "a", "r", "a", "c", "t", "e", "r", "s">>

episodesSeg == <<"e", "p", "i", "s", "o", "d", "e", "s">>

quotesSeg == <<"q", "u", "o", "t", "e", "s">>

statsSeg == <<"s", "t", "a", "t", "s">>

catchphrasesSeg == <<"c", "a", "t", "c", "h", "p", "h", "r", "a", "s", "e", "s">>

-----------------------------------------------------------------------------
(* Response Encoder *)

OK == 200

BadRequest == 400

NotFound == 404

MethodNotAllowed == 405

CorsHeaders ==
    { <<"Access-Control-Allow-Origin", "*">>,
      <<"Access-Control-Allow-Methods", "GET, POST, PUT, DELETE, OPTIONS">>,
      <<"Access-Control-Allow-Headers", "Content-Type">> }

JsonHeaders == {<<"Content-Type", "application/json">>} \cup CorsHeaders

NoResponse == [status |-> 0, headers |-> {}, body |-> [kind |-> "none"]]

undefined == [t |-> "undefined"]

\* JSON.stringify(data, null, 2): undefined has no JSON text, and a number that
\* is not finite is written as null
stringify(data) ==
    IF data.t = "undefined" THEN undefined
    ELSE IF data.t = "stats" /\ data.seasons.t # "num"
         THEN [data EXCEPT !.seasons = [t |-> "null"]]
         ELSE data

\* res.writeHead(statusCode, headers); res.end(JSON.stringify(data, null, 2))
sendJSON(data, statusCode) ==
    [status  |-> statusCode,
     headers |-> JsonHeaders,
     body    |-> LET text == stringify(data)
                 IN  IF text.t = "undefined" THEN [kind |-> "empty"]
                     ELSE [kind |-> "json", value |-> text]]

sendError(message, statusCode) == sendJSON([t |-> "error", error |-> message], statusCode)

\* the outcome of a handler: a response written, or an exception thrown
Responded(r, who, rd) == [res |-> r, thrown |-> "none", called |-> who, reads |-> rd]

Threw(e, who, rd) == [res |-> NoResponse, thrown |-> e, called |-> who, reads |-> rd]

-----------------------------------------------------------------------------
(* Query Filter and Random Selector *)

Return(v) == [t |-> "ok", v |-> v]

Throw(e) == [t |-> "throw", e |-> e]

NumericFields == {"id", "season"}

\* value.toString() of a field of a record
valueToString(item, f) == IF f \in NumericFields THEN numberToString(item[f]) ELSE item[f]

\* array[Math.floor(Math.random() * array.length)], Math.random() = u / RandSteps
getRandomItem(array, u) ==
    LET index == (u * Len(array)) \div RandSteps
    IN  IF index + 1 \in DOMAIN array THEN [t |-> "entity", item |-> array[index + 1]]
        ELSE undefined

\* filterByQuery, without toLowerCase() on the field's string
filterByQueryCaseSensitive(array, query) ==
    IF ~truthy(query) THEN Return(array)
    ELSE IF query.t = "arr" THEN (IF array = <<>> THEN Return(<<>>) ELSE Throw("TypeError"))
    ELSE Return(SelectSeq(array, LAMBDA item :
            \E f \in DOMAIN item :
                includes(valueToString(item, f), toLowerCase(query.v))))

\* query.toLowerCase() is evaluated inside the callbacks, so only when the array
\* has an item (every item has at least its id); an array has no toLowerCase
filterByQuery(array, query) ==
    IF ~truthy(query) THEN Return(array)
    ELSE IF query.t = "arr" THEN (IF array = <<>> THEN Return(<<>>) ELSE Throw("TypeError"))
    ELSE Return(SelectSeq(array, LAMBDA item :
            \E f \in DOMAIN item :
                includes(toLowerCase(valueToString(item, f)), toLowerCase(query.v))))

\* array.find(x => x.id === id): the first such item
find(array, id) ==
    LET hits == {i \in DOMAIN array : id.t = "num" /\ array[i].id = id.v}
    IN  IF hits = {} THEN undefined
        ELSE [t |-> "entity", item |-> array[CHOOSE i \in hits : \A j \in hits : i <= j]]

\* Math.max(...values): -Infinity for no values
MathMax(values) ==
    IF values = {} THEN [t |-> "-Infinity"]
    ELSE Num(CHOOSE m \in values : \A v \in values : v <= m)

-----------------------------------------------------------------------------
(* Route handlers.  pathParts and query are those of handleRequest; u is the *)
(* value Math.random() returns if the handler calls it.                      *)

List(key, filtered) ==
    [t |-> "list", key |-> key, total |-> Len(filtered), items |-> filtered]

\* { ...character, quotes: characterQuotes }
withQuotes(character, characterQuotes) ==
    [f \in DOMAIN character \cup {"quotes"} |->
        IF f = "quotes" THEN characterQuotes ELSE character[f]]

\* quotes.filter(q => q.character.toLowerCase().includes(character.name.toLowerCase())),
\* with includes applied the wrong way round
quotesOfReversed(character) ==
    SelectSeq(quotes, LAMBDA q :
        includes(toLowerCase(character.name), toLowerCase(q.character)))

\* quotes.filter(q => q.character.toLowerCase().includes(character.name.toLowerCase()))
quotesOf(character) ==
    SelectSeq(quotes, LAMBDA q :
        includes(toLowerCase(q.character), toLowerCase(character.name)))

\* the season filter, testing the parsed number instead of the query string: season 0
\* is falsy and the filter is skipped
bySeasonParsedFirst(filtered, query) ==
    LET season == IF truthy(query.season) THEN parseInt(String(query.season)) ELSE NaN
    IN  IF season.t = "num" /\ season.v # 0
        THEN SelectSeq(filtered, LAMBDA ep : ep.season = season.v)
        ELSE filtered

\* if (query.season) filtered = filtered.filter(ep => ep.season === parseInt(query.season))
bySeason(filtered, query) ==
    IF truthy(query.season)
    THEN LET season == parseInt(String(query.season))
         IN  SelectSeq(filtered, LAMBDA ep : season.t = "num" /\ ep.season = season.v)
    ELSE filtered

handleCharacters(pathParts, query, u) ==
    IF Len(pathParts) = 2 THEN
        LET filtered == filterByQuery(characters, query.search)
        IN  IF filtered.t = "throw"
            THEN Threw(filtered.e, "handleCharacters", {"characters"})
            ELSE Responded(sendJSON(List("characters", filtered.v), OK),
                           "handleCharacters", {"characters"})
    ELSE IF Len(pathParts) = 3 /\ pathParts[3] = random THEN
        Responded(sendJSON(getRandomItem(characters, u), OK),
                  "handleCharacters", {"characters"})
    ELSE IF Len(pathParts) = 3 THEN
        LET id        == parseInt(pathParts[3])
            character == find(characters, id)
        IN  IF character.t = "entity" THEN
                LET characterQuotes == quotesOf(character.item)
                IN  Responded(sendJSON([t |-> "entity",
                                        item |-> withQuotes(character.item, characterQuotes)], OK),
                              "handleCharacters", {"characters", "quotes"})
            ELSE Responded(sendError("Character not found", NotFound),
                           "handleCharacters", {"characters"})
    ELSE Responded(sendError("Invalid characters endpoint", NotFound), "handleCharacters", {})

handleEpisodes(pathParts, query, u) ==
    IF Len(pathParts) = 2 THEN
        LET filtered == filterByQuery(bySeason(episodes, query), query.search)
        IN  IF filtered.t = "throw"
            THEN Threw(filtered.e, "handleEpisodes", {"episodes"})
            ELSE Responded(sendJSON(List("episodes", filtered.v), OK),
                           "handleEpisodes", {"episodes"})
    ELSE IF Len(pathParts) = 3 /\ pathParts[3] = random THEN
        Responded(sendJSON(getRandomItem(episodes, u), OK), "handleEpisodes", {"episodes"})
    ELSE IF Len(pathParts) = 3 THEN
        LET id      == parseInt(pathParts[3])
            episode == find(episodes, id)
        IN  IF episode.t = "entity"
            THEN Responded(sendJSON(episode, OK), "handleEpisodes", {"episodes"})
            ELSE Responded(sendError("Episode not found", NotFound),
                           "handleEpisodes", {"episodes"})
    ELSE Responded(sendError("Invalid episodes endpoint", NotFound), "handleEpisodes", {})

handleQuotes(pathParts, query, u) ==
    IF Len(pathParts) = 2 THEN
        \* query.character.toLowerCase() runs in the callback: an array given for
        \* character throws once there is a quote to test
        IF truthy(query.character) /\ query.character.t = "arr" /\ quotes # <<>>
        THEN Threw("TypeError", "handleQuotes", {"quotes"})
        ELSE
        LET byCharacter == IF truthy(query.character) /\ query.character.t = "str"
                           THEN SelectSeq(quotes, LAMBDA q :
                                    includes(toLowerCase(q.character),
                                             toLowerCase(query.character.v)))
                           ELSE quotes
            filtered == filterByQuery(byCharacter, query.search)
        IN  IF filtered.t = "throw"
            THEN Threw(filtered.e, "handleQuotes", {"quotes"})
            ELSE Responded(sendJSON(List("quotes", filtered.v), OK),
                           "handleQuotes", {"quotes"})
    ELSE IF Len(pathParts) = 3 /\ pathParts[3] = random THEN
        Responded(sendJSON(getRandomItem(quotes, u), OK), "handleQuotes", {"quotes"})
    ELSE IF Len(pathParts) = 3 THEN
        LET id    == parseInt(pathParts[3])
            quote == find(quotes, id)
        IN  IF quote.t = "entity"
            THEN Responded(sendJSON(quote, OK), "handleQuotes", {"quotes"})
            ELSE Responded(sendError("Quote not found", NotFound), "handleQuotes", {"quotes"})
    ELSE Responded(sendError("Invalid quotes endpoint", NotFound), "handleQuotes", {})

handleStats ==
    Responded(sendJSON([t               |-> "stats",
                        totalCharacters |-> Len(characters),
                        totalEpisodes   |-> Len(episodes),
                        totalQuotes     |-> Len(quotes),
                        seasons         |-> MathMax({episodes[i].season : i \in DOMAIN episodes}),
                        apiVersion      |-> "1.0.0"], OK),
              "handleStats", {"characters", "episodes", "quotes"})

\* catchphrases is declared nowhere: evaluating the identifier throws
handleCatchphrases(pathParts, query, u) ==
    IF Len(pathParts) = 2 THEN Threw("ReferenceError", "handleCatchphrases", {"catchphrases"})
    ELSE IF Len(pathParts) = 3 /\ pathParts[3] = random
    THEN Threw("ReferenceError", "handleCatchphrases", {"catchphrases"})
    ELSE IF Len(pathParts) = 3
    THEN Threw("ReferenceError", "handleCatchphrases", {"catchphrases"})
    ELSE Responded(sendError("Invalid catchphrases endpoint", NotFound), "handleCatchphrases", {})

-----------------------------------------------------------------------------
(* Main request handler *)

documentation == [t |-> "documentation", message |-> "Welcome to the Seinfeld API!",
                  version |-> "1.0.0"]

\* res.writeHead(200, cors); res.end()
preflight == [status |-> OK, headers |-> CorsHeaders, body |-> [kind |-> "empty"]]

\* route, without the length check of /api alone: the switch sees an undefined
\* endpoint and takes its default case
routeNoLengthCheck(pathParts, query, u) ==
    IF pathParts[1] = api THEN
        IF Len(pathParts) < 2
        THEN Responded(sendError("Endpoint not found", NotFound), "none", {})
        ELSE LET endpoint == pathParts[2]
             IN  IF endpoint = charactersSeg THEN handleCharacters(pathParts, query, u)
                 ELSE IF endpoint = episodesSeg THEN handleEpisodes(pathParts, query, u)
                 ELSE IF endpoint = quotesSeg THEN handleQuotes(pathParts, query, u)
                 ELSE IF endpoint = statsSeg THEN handleStats
                 ELSE Responded(sendError("Endpoint not found", NotFound), "none", {})
    ELSE Responded(sendError("Not found", NotFound), "none", {})

\* route, with handleCatchphrases wired into the switch
routeWithCatchphrases(pathParts, query, u) ==
    IF pathParts[1] = api THEN
        IF Len(pathParts) < 2
        THEN Responded(sendError("Invalid API endpoint", BadRequest), "none", {})
        ELSE LET endpoint == pathParts[2]
             IN  IF endpoint = charactersSeg THEN handleCharacters(pathParts, query, u)
                 ELSE IF endpoint = episodesSeg THEN handleEpisodes(pathParts, query, u)
                 ELSE IF endpoint = quotesSeg THEN handleQuotes(pathParts, query, u)
                 ELSE IF endpoint = statsSeg THEN handleStats
                 ELSE IF endpoint = catchphrasesSeg
                      THEN handleCatchphrases(pathParts, query, u)
                 ELSE Responded(sendError("Endpoint not found", NotFound), "none", {})
    ELSE Responded(sendError("Not found", NotFound), "none", {})

\* index.js:258-285, the branches taken once the method is GET and the path is
\* not the root
route(pathParts, query, u) ==
    IF pathParts[1] = api THEN
        IF Len(pathParts) < 2
        THEN Responded(sendError("Invalid API endpoint", BadRequest), "none", {})
        ELSE LET endpoint == pathParts[2]
             IN  IF endpoint = charactersSeg THEN handleCharacters(pathParts, query, u)
                 ELSE IF endpoint = episodesSeg THEN handleEpisodes(pathParts, query, u)
                 ELSE IF endpoint = quotesSeg THEN handleQuotes(pathParts, query, u)
                 ELSE IF endpoint = statsSeg THEN handleStats
                 ELSE Responded(sendError("Endpoint not found", NotFound), "none", {})
    ELSE Responded(sendError("Not found", NotFound), "none", {})

\* handleRequest, with the root check placed before the method checks
handleRequestPathFirst(request, u) ==
    LET pathParts == PathParts(request.pathname)
        query     == request.query
    IN  IF Len(pathParts) = 0
        THEN Responded(sendJSON(documentation, OK), "none", {})
        ELSE IF request.method = "OPTIONS" THEN Responded(preflight, "none", {})
        ELSE IF request.method # "GET"
        THEN Responded(sendError("Method not allowed", MethodNotAllowed), "none", {})
        ELSE route(pathParts, query, u)

handleRequest(request, u) ==
    LET pathParts == PathParts(request.pathname)
        query     == request.query
    IN  IF request.method = "OPTIONS" THEN Responded(preflight, "none", {})
        ELSE IF request.method # "GET"
        THEN Responded(sendError("Method not allowed", MethodNotAllowed), "none", {})
        ELSE IF Len(pathParts) = 0
        THEN Responded(sendJSON(documentation, OK), "none", {})
        ELSE route(pathParts, query, u)

-----------------------------------------------------------------------------
(* The process: module load, loadData(), server.listen, then requests *)

NoQuery == [search |-> Absent, season |-> Absent, character |-> Absent]

NoRequest == [method |-> "none", pathname |-> <<>>, query |-> NoQuery]

NoCall == [array |-> <<>>, query |-> Absent]

\* index.js:7-9 and the state before loadData() runs
Init ==
    /\ characters = <<>>
    /\ episodes = <<>>
    /\ quotes = <<>>
    /\ phase = "init"
    /\ req = NoRequest
    /\ res = NoResponse
    /\ thrown = "none"
    /\ called = "none"
    /\ reads = {}
    /\ arg = NoCall
    /\ ret = Return(<<>>)

\* loadData() reads and parses the three files, then the server listens
LoadData(cs, es, qs) ==
    /\ phase = "init"
    /\ characters' = cs
    /\ episodes' = es
    /\ quotes' = qs
    /\ phase' = "listening"
    /\ UNCHANGED <<req, res, thrown, called, reads, arg, ret>>

\* the k-th read or parse throws: the tables read before it are assigned and
\* process.exit(1) ends the process before the server is created
LoadFailure(cs, es, k) ==
    /\ phase = "init"
    /\ characters' = IF k >= 1 THEN cs ELSE characters
    /\ episodes' = IF k >= 2 THEN es ELSE episodes
    /\ quotes' = quotes
    /\ phase' = "exited"
    /\ UNCHANGED <<req, res, thrown, called, reads, arg, ret>>

\* whether handling the request reaches getRandomItem, the only caller of
\* Math.random
callsRandom(request) ==
    LET pathParts == PathParts(request.pathname)
    IN  /\ request.method = "GET"
        /\ Len(pathParts) = 3
        /\ pathParts[1] = api
        /\ pathParts[2] \in {charactersSeg, episodesSeg, quotesSeg}
        /\ pathParts[3] = random

RandomDraws(request) == IF callsRandom(request) THEN 0..(RandSteps - 1) ELSE {0}

\* Serve, with the episode list filtered in place: the filtered list is
\* assigned to the module-level episodes
ServeFilteringInPlace(request, u) ==
    /\ phase = "listening"
    /\ LET h == handleRequest(request, u)
       IN  /\ req' = request
           /\ res' = h.res
           /\ thrown' = h.thrown
           /\ called' = h.called
           /\ reads' = h.reads
           /\ phase' = IF h.thrown = "none" THEN "responded" ELSE "crashed"
           /\ episodes' = IF /\ h.called = "handleEpisodes"
                             /\ h.res.body.kind = "json"
                             /\ h.res.body.value.t = "list"
                          THEN h.res.body.value.items
                          ELSE episodes
    /\ UNCHANGED <<characters, quotes, arg, ret>>

\* http.createServer(handleRequest): one request is handled to its end; an
\* exception that leaves handleRequest is uncaught and ends the process
Serve(request, u) ==
    /\ phase = "listening"
    /\ LET h == handleRequest(request, u)
       IN  /\ req' = request
           /\ res' = h.res
           /\ thrown' = h.thrown
           /\ called' = h.called
           /\ reads' = h.reads
           /\ phase' = IF h.thrown = "none" THEN "responded" ELSE "crashed"
    /\ UNCHANGED <<characters, episodes, quotes, arg, ret>>

\* handleRequest has returned: req and res are dropped and the server waits for
\* the next request
Close ==
    /\ phase = "responded"
    /\ phase' = "listening"
    /\ req' = NoRequest
    /\ res' = NoResponse
    /\ thrown' = "none"
    /\ called' = "none"
    /\ reads' = {}
    /\ UNCHANGED <<characters, episodes, quotes, arg, ret>>

-----------------------------------------------------------------------------
(* Inputs *)

SeqsUpTo(S, n) == UNION {[1..k -> S] : k \in 0..n}

\* "/" followed by the segments joined with "/"
RECURSIVE Path(_)
Path(segs) ==
    IF segs = <<>> THEN <<>>
    ELSE <<"/">> \o segs[1] \o Path(Tail(segs))

Query(search, season, character) ==
    [search |-> search, season |-> season, character |-> character]

Request(method, pathname, query) ==
    [method |-> method, pathname |-> pathname, query |-> query]

Resources == {charactersSeg, episodesSeg, quotesSeg}

IdSegments == { <<"1">>, <<"2">>, <<"3">>, <<"1", "a">>, <<"0", "1">>, <<"x">>,
                <<"0", "x", "2">>, <<"-", "1">> }

CharacterRows == { [id |-> 1, name |-> <<"J", "o">>], [id |-> 2, name |-> <<"o">>] }

EpisodeRows == { [id |-> 1, season |-> 1, title |-> <<"A", "b">>],
                 [id |-> 2, season |-> 2, title |-> <<"b", "1">>] }

QuoteRows == { [id |-> 1, character |-> <<"j", "O">>, text |-> <<"a">>] }

Searches == { Absent, Str(<<"b">>), Arr(<<<<"a">>, <<"b">>>>) }

Pathnames ==
    { <<"/">>, Path(<<api>>), Path(<<<<"x">>>>) }
    \cup { Path(<<api, r>>) : r \in Resources \cup {statsSeg, catchphrasesSeg} }
    \cup { Path(<<api, r, s>>) : r \in Resources, s \in IdSegments \cup {random} }
    \cup { Path(<<api, r, <<"1">>, <<"x">>>>) : r \in Resources }

Requests ==
    { Request("GET", p, Query(s, Absent, Absent)) : p \in Pathnames, s \in Searches }
    \cup { Request("GET", Path(<<api, episodesSeg>>), Query(Absent, Str(<<"1">>), Absent)),
           Request("GET", Path(<<api, quotesSeg>>), Query(Absent, Absent, Str(<<"j">>))),
           Request("GET", Path(<<api, quotesSeg>>),
                   Query(Absent, Absent, Arr(<<<<"j">>, <<"k">>>>))) }
    \cup { Request(m, p, NoQuery) : m \in {"OPTIONS", "POST"},
                                    p \in {<<"/">>, Path(<<api, charactersSeg>>)} }

Load ==
    \E cs \in SeqsUpTo(CharacterRows, MaxRows), es \in SeqsUpTo(EpisodeRows, MaxRows),
       qs \in SeqsUpTo(QuoteRows, MaxRows) : LoadData(cs, es, qs)

LoadFails ==
    \E cs \in SeqsUpTo(CharacterRows, MaxRows), es \in SeqsUpTo(EpisodeRows, MaxRows),
       k \in 0..2 : LoadFailure(cs, es, k)

Handle == \E request \in Requests : \E u \in RandomDraws(request) : Serve(request, u)

Next == Load \/ LoadFails \/ Handle \/ Close

Spec == Init /\ [][Next]_vars

-----------------------------------------------------------------------------
(* Routing: few tables, many methods and paths *)

RoutingSegments == {api, charactersSeg, episodesSeg, quotesSeg, statsSeg, catchphrasesSeg,
                    random, <<"1">>, <<"x">>}

RoutingPathnames ==
    { <<"/">>, <<"/", "/">>, Path(<<api, <<>>, charactersSeg, <<>>>>) }
    \cup { Path(segs) : segs \in [1..1 -> RoutingSegments] \cup [1..2 -> RoutingSegments] }
    \cup { Path(<<api, r, s>>) : r \in Resources \cup {statsSeg, catchphrasesSeg, <<"x">>},
                                 s \in {random, <<"1">>, <<"x">>} }
    \cup { Path(<<api, r, s, <<"x">>>>) : r \in Resources \cup {statsSeg, catchphrasesSeg},
                                          s \in {random, <<"1">>} }

Methods == {"GET", "OPTIONS", "POST", "PUT", "DELETE", "HEAD"}

RoutingRequests ==
    { Request(m, p, Query(s, Absent, Absent)) :
        m \in Methods, p \in RoutingPathnames, s \in Searches }

RoutingLoad ==
    \E cs \in SeqsUpTo({[id |-> 1, name |-> <<"J", "o">>]}, MaxRows),
       es \in SeqsUpTo({[id |-> 1, season |-> 1, title |-> <<"A", "b">>]}, MaxRows),
       qs \in SeqsUpTo({[id |-> 1, character |-> <<"j", "O">>, text |-> <<"a">>]}, MaxRows) :
        LoadData(cs, es, qs)

RoutingLoadFails ==
    \E cs \in SeqsUpTo({[id |-> 1, name |-> <<"J", "o">>]}, MaxRows),
       es \in SeqsUpTo({[id |-> 1, season |-> 1, title |-> <<"A", "b">>]}, MaxRows),
       k \in 0..2 : LoadFailure(cs, es, k)

RoutingHandle ==
    \E request \in RoutingRequests : \E u \in RandomDraws(request) : Serve(request, u)

RoutingNext == RoutingLoad \/ RoutingLoadFails \/ RoutingHandle \/ Close

SpecRouting == Init /\ [][RoutingNext]_vars

-----------------------------------------------------------------------------
(* Properties *)

\* handleRequest has run on req to its end, by returning or by throwing
Handled == phase \in {"responded", "crashed"}

parts == PathParts(req.pathname)

IsError(status, message) ==
    /\ thrown = "none"
    /\ res.status = status
    /\ res.body = [kind |-> "json", value |-> [t |-> "error", error |-> message]]

\* the routes of the routing table: /, /api/<resource>, /api/<resource>/<random or id>,
\* /api/stats
IsKnownRoute(p) ==
    \/ p = <<>>
    \/ Len(p) \in {2, 3} /\ p[1] = api /\ p[2] \in Resources
    \/ p = <<api, statsSeg>>

\* C1: every request whose handling fails ends with exactly one response, a JSON
\* body {error: <string>} with status 400, 404 or 405; no request other than an
\* OPTIONS preflight ends with an empty body or with no response, and no error
\* leaves handleRequest.
C1_FailuresAreErrorEnvelopes ==
    Handled =>
        /\ thrown = "none"
        /\ res.body.kind # "none"
        /\ res.body.kind = "empty" => req.method = "OPTIONS"
        /\ res.status # 200 =>
            /\ res.status \in {400, 404, 405}
            /\ res.body.kind = "json"
            /\ res.body.value.t = "error"

ResourceName(seg) ==
    IF seg = charactersSeg THEN "characters"
    ELSE IF seg = episodesSeg THEN "episodes"
    ELSE "quotes"

C8_CatchphrasesFixedError ==
    (/\ Handled
     /\ req.method = "GET"
     /\ Len(parts) \in {2, 3}
     /\ parts[1] = api
     /\ parts[2] = catchphrasesSeg) =>
        /\ IsError(404, "Endpoint not found")
        /\ res.headers = { <<"Content-Type", "application/json">>,
                           <<"Access-Control-Allow-Origin", "*">>,
                           <<"Access-Control-Allow-Methods", "GET, POST, PUT, DELETE, OPTIONS">>,
                           <<"Access-Control-Allow-Headers", "Content-Type">> }
        /\ called # "handleCatchphrases"
        /\ reads = {}

C8_Witness ==
    /\ phase = "responded"
    /\ req.method = "GET"
    /\ parts = <<api, catchphrasesSeg, <<"1">>>>
    /\ req.query.search.t = "arr"
    /\ res.status = 404

\* C9: whatever the path and the query string, an OPTIONS request gets 200 with
\* an empty body and the CORS headers, a request whose method is neither GET nor
\* OPTIONS gets 405 {error: "Method not allowed"}, and neither reads a table.
C9_MethodDecidedFirst ==
    /\ (Handled /\ req.method = "OPTIONS") =>
            /\ thrown = "none"
            /\ res.status = 200
            /\ res.body = [kind |-> "empty"]
            /\ res.headers = { <<"Access-Control-Allow-Origin", "*">>,
                               <<"Access-Control-Allow-Methods", "GET, POST, PUT, DELETE, OPTIONS">>,
                               <<"Access-Control-Allow-Headers", "Content-Type">> }
            /\ reads = {}
    /\ (Handled /\ req.method \notin {"GET", "OPTIONS"}) =>
            /\ IsError(405, "Method not allowed")
            /\ reads = {}

C9_Witness ==
    /\ phase = "responded"
    /\ req.method = "DELETE"
    /\ parts = <<>>
    /\ res.status = 405

\* C10: once the startup load has ended, no step changes the characters, episodes
\* or quotes table.
C10_TablesFrozen == [][phase # "init" => UNCHANGED tables]_vars

C10_Witness ==
    /\ phase = "responded"
    /\ called = "handleEpisodes"
    /\ res.body.kind = "json"
    /\ res.body.value.t = "list"
    /\ res.body.value.total < Len(episodes)

-----------------------------------------------------------------------------
(* Episodes: many episode tables and collection queries *)

EpisodeRowsWide ==
    { [id |-> 1, season |-> 1, title |-> <<"A", "b">>],
      [id |-> 2, season |-> 2, title |-> <<"b", "1">>],
      [id |-> 3, season |-> 1, title |-> <<"B">>],
      [id |-> 2, season |-> 12, title |-> <<"a">>],
      [id |-> 4, season |-> 0, title |-> <<"a", "B", "x">>],
      [id |-> 10, season |-> 2, title |-> <<>>] }

\* the table of the example of section 8 of the specification
ExampleEpisodes ==
    << [id |-> 1, season |-> 1, title |-> <<"A", "b">>],
       [id |-> 2, season |-> 2, title |-> <<"b", "1">>],
       [id |-> 3, season |-> 1, title |-> <<"B">>] >>

EpisodeSeasons ==
    { Absent, Str(<<>>), Str(<<"0">>), Str(<<"1">>), Str(<<"2">>), Str(<<"1", "2">>),
      Str(<<"1", "a">>), Str(<<"x">>), Str(<<" ", "2">>), Arr(<<<<"1">>, <<"2">>>>) }

EpisodeSearches ==
    { Absent, Str(<<>>), Str(<<"b">>), Str(<<"B">>), Str(<<"a", "B">>), Str(<<"1">>),
      Str(<<"2">>), Str(<<"x">>), Arr(<<<<"a">>, <<"b">>>>) }

EpisodeRequests ==
    { Request("GET", Path(<<api, episodesSeg>>), Query(s, n, Absent)) :
        s \in EpisodeSearches, n \in EpisodeSeasons }
    \cup { Request("GET", Path(<<api, episodesSeg, s>>), NoQuery) : s \in IdSegments \cup {random} }
    \cup { Request("GET", Path(<<api, statsSeg>>), NoQuery) }

EpisodesLoad ==
    \E es \in SeqsUpTo(EpisodeRowsWide, MaxRows) \cup {ExampleEpisodes} :
        LoadData(<<>>, es, <<>>)

EpisodesLoadFails ==
    \E es \in SeqsUpTo(EpisodeRowsWide, MaxRows), k \in 0..2 : LoadFailure(<<>>, es, k)

EpisodesHandle ==
    \E request \in EpisodeRequests : \E u \in RandomDraws(request) : Serve(request, u)

EpisodesNext == EpisodesLoad \/ EpisodesLoadFails \/ EpisodesHandle \/ Close

SpecEpisodes == Init /\ [][EpisodesNext]_vars

-----------------------------------------------------------------------------
(* Characters: many character and quote tables, lookups by id *)

CharacterRowsWide ==
    { [id |-> 1, name |-> <<"J", "o">>],
      [id |-> 2, name |-> <<"o">>],
      [id |-> 1, name |-> <<"K">>],
      [id |-> 3, name |-> <<"j", "O", "e">>] }

QuoteRowsWide ==
    { [id |-> 1, character |-> <<"j", "O">>, text |-> <<"a">>],
      [id |-> 2, character |-> <<"K", "o">>, text |-> <<"J", "o">>],
      [id |-> 3, character |-> <<"J", "o", "E">>, text |-> <<"b">>] }

CharacterRequests ==
    { Request("GET", Path(<<api, charactersSeg, s>>), NoQuery) : s \in IdSegments \cup {random} }
    \cup { Request("GET", Path(<<api, charactersSeg>>), Query(s, Absent, Absent)) :
            s \in Searches }

CharactersLoad ==
    \E cs \in SeqsUpTo(CharacterRowsWide, MaxRows), qs \in SeqsUpTo(QuoteRowsWide, MaxRows) :
        LoadData(cs, <<>>, qs)

CharactersLoadFails ==
    \E cs \in SeqsUpTo(CharacterRowsWide, MaxRows), k \in 0..2 : LoadFailure(cs, <<>>, k)

CharactersHandle ==
    \E request \in CharacterRequests : \E u \in RandomDraws(request) : Serve(request, u)

CharactersNext == CharactersLoad \/ CharactersLoadFails \/ CharactersHandle \/ Close

SpecCharacters == Init /\ [][CharactersNext]_vars

-----------------------------------------------------------------------------
(* filterByQuery on its own *)

FilterRows ==
    { [id |-> 1, name |-> <<"J", "o">>],
      [id |-> 12, name |-> <<"o">>],
      [id |-> 2, season |-> 1, title |-> <<"A", "b">>],
      [id |-> 3, character |-> <<"K">>, text |-> <<"j", "2">>],
      [id |-> 2, season |-> 12, title |-> <<>>],
      [id |-> 4, character |-> <<"J", "O">>, text |-> <<"a", "b", "x">>] }

FilterQueries ==
    { Absent, Str(<<>>), Str(<<"o">>), Str(<<"O">>), Str(<<"j", "O">>), Str(<<"1">>),
      Str(<<"2">>), Str(<<"A", "B">>), Str(<<"x">>), Arr(<<<<"o">>, <<"1">>>>) }

InitFilter ==
    /\ characters = <<>>
    /\ episodes = <<>>
    /\ quotes = <<>>
    /\ phase = "call"
    /\ req = NoRequest
    /\ res = NoResponse
    /\ thrown = "none"
    /\ called = "none"
    /\ reads = {}
    /\ arg \in { [array |-> a, query |-> q] : a \in SeqsUpTo(FilterRows, MaxRows),
                                              q \in FilterQueries }
    /\ ret = Return(<<>>)

CallFilter ==
    /\ phase = "call"
    /\ ret' = filterByQuery(arg.array, arg.query)
    /\ phase' = "returned"
    /\ UNCHANGED <<characters, episodes, quotes, req, res, thrown, called, reads, arg>>

SpecFilter == InitFilter /\ [][CallFilter]_vars

-----------------------------------------------------------------------------
(* Properties of lookups and filters *)

\* a decimal numeral, with an optional minus sign
IsIntegerString(s) ==
    LET d == IF s # <<>> /\ s[1] = "-" THEN Tail(s) ELSE s
    IN  d # <<>> /\ \A i \in DOMAIN d : d[i] \in {"0", "1", "2", "3", "4", "5", "6", "7", "8", "9"}

RECURSIVE Pow10(_)
Pow10(n) == IF n = 0 THEN 1 ELSE 10 * Pow10(n - 1)

DigitOf(c) == CHOOSE n \in 0..9 : Digits[n + 1] = c

RECURSIVE SumOver(_, _)
SumOver(d, i) ==
    IF i > Len(d) THEN 0 ELSE DigitOf(d[i]) * Pow10(Len(d) - i) + SumOver(d, i + 1)

\* the integer an integer string denotes
IntegerValue(s) ==
    IF s[1] = "-" THEN 0 - SumOver(Tail(s), 1) ELSE SumOver(s, 1)

CasePairs == { <<"A", "a">>, <<"B", "b">>, <<"C", "c">>, <<"D", "d">>, <<"E", "e">>, <<"F", "f">>,
               <<"G", "g">>, <<"H", "h">>, <<"I", "i">>, <<"J", "j">>, <<"K", "k">>, <<"L", "l">>,
               <<"M", "m">>, <<"N", "n">>, <<"O", "o">>, <<"P", "p">>, <<"Q", "q">>, <<"R", "r">>,
               <<"S", "s">>, <<"T", "t">>, <<"U", "u">>, <<"V", "v">>, <<"W", "w">>, <<"X", "x">>,
               <<"Y", "y">>, <<"Z", "z">> }

SameLetter(a, b) == a = b \/ <<a, b>> \in CasePairs \/ <<b, a>> \in CasePairs

\* q occurs in s at some offset, letter case ignored
ContainsCI(s, q) ==
    \E k \in 0..(Len(s) - Len(q)) : \A j \in 1..Len(q) : SameLetter(s[k + j], q[j])

\* the string form of a field: a number in decimal, a string as it is
FieldText(item, f) ==
    IF f \in {"id", "season"} THEN numberToString(item[f]) ELSE item[f]

\* some field of the record contains q, letter case ignored
Matches(item, q) == \E f \in DOMAIN item : ContainsCI(FieldText(item, f), q)

TableOf(seg) ==
    IF seg = charactersSeg THEN characters
    ELSE IF seg = episodesSeg THEN episodes
    ELSE quotes

NotFoundMessage(seg) ==
    IF seg = charactersSeg THEN "Character not found"
    ELSE IF seg = episodesSeg THEN "Episode not found"
    ELSE "Quote not found"

FirstWithId(table, n) ==
    table[CHOOSE i \in DOMAIN table :
            table[i].id = n /\ \A j \in 1..(i - 1) : table[j].id # n]

IsLookup ==
    /\ Handled
    /\ req.method = "GET"
    /\ Len(parts) = 3
    /\ parts[1] = api
    /\ parts[2] \in Resources
    /\ parts[3] # random

\* the response is 200 with the fields of the record
RespondsWith(record) ==
    /\ thrown = "none"
    /\ res.status = 200
    /\ res.body.kind = "json"
    /\ res.body.value.t = "entity"
    /\ \A f \in DOMAIN record : res.body.value.item[f] = record[f]

\* C3: lookup by id: an id segment that denotes an integer which is the id of
\* some record gets 200 with the first record having that id; an id segment that
\* denotes an integer no record has, or that is not a numeric string (a numeric
\* prefix followed by other characters included), gets 404 "<Resource> not found".
C3_LookupById ==
    IsLookup =>
        LET table == TableOf(parts[2])
            seg   == parts[3]
        IN  IF IsIntegerString(seg) /\ \E i \in DOMAIN table : table[i].id = IntegerValue(seg)
            THEN RespondsWith(FirstWithId(table, IntegerValue(seg)))
            ELSE IsError(404, NotFoundMessage(parts[2]))

\* C4: GET /api/episodes with season=s and optionally search=q returns total and
\* episodes, where episodes is, in table order, the episodes whose season is the
\* integer s and, when q is given, that have a field containing q, letter case
\* ignored; total is the length of that list.
C4_SeasonThenSearch ==
    (/\ Handled
     /\ req.method = "GET"
     /\ parts = <<api, episodesSeg>>
     /\ req.query.season.t = "str"
     /\ IsIntegerString(req.query.season.v)
     /\ req.query.search.t \in {"absent", "str"}) =>
        LET s        == IntegerValue(req.query.season.v)
            q        == req.query.search
            expected == SelectSeq(episodes, LAMBDA ep :
                            ep.season = s /\ (q.t = "str" => Matches(ep, q.v)))
        IN  /\ thrown = "none"
            /\ res.status = 200
            /\ res.body.kind = "json"
            /\ res.body.value.t = "list"
            /\ res.body.value.key = "episodes"
            /\ res.body.value.items = expected
            /\ res.body.value.total = Len(expected)

\* the example of the specification: season=1 on the three episodes gives total 2
\* and the episodes with ids 1 and 3
C4_Witness ==
    /\ phase = "responded"
    /\ episodes = ExampleEpisodes
    /\ parts = <<api, episodesSeg>>
    /\ req.query.season = Str(<<"1">>)
    /\ req.query.search = Absent
    /\ res.body.value.total = 2
    /\ res.body.value.items[1].id = 1
    /\ res.body.value.items[2].id = 3

\* C5: GET /api/characters/:id for an id in the Characters table returns the
\* character's id and name and a quotes array that is, in Quotes-table order,
\* exactly the quotes whose character field contains the character's name, letter
\* case ignored.
C5_CharacterWithQuotes ==
    (/\ IsLookup
     /\ parts[2] = charactersSeg
     /\ IsIntegerString(parts[3])
     /\ \E i \in DOMAIN characters : characters[i].id = IntegerValue(parts[3])) =>
        LET character == FirstWithId(characters, IntegerValue(parts[3]))
        IN  /\ thrown = "none"
            /\ res.status = 200
            /\ res.body.kind = "json"
            /\ res.body.value.t = "entity"
            /\ res.body.value.item.id = character.id
            /\ res.body.value.item.name = character.name
            /\ res.body.value.item.quotes =
                   SelectSeq(quotes, LAMBDA q : ContainsCI(q.character, character.name))

\* a character found whose quotes are some but not all of the Quotes table
C5_Witness ==
    /\ phase = "responded"
    /\ IsLookup
    /\ parts[2] = charactersSeg
    /\ res.status = 200
    /\ Len(res.body.value.item.quotes) > 0
    /\ Len(res.body.value.item.quotes) < Len(quotes)

\* C6: GET /api/stats returns totalCharacters, totalEpisodes and totalQuotes equal
\* to the lengths of the tables and seasons equal to the largest season of the
\* episodes, for every content of the tables, an empty Episodes table included.
C6_Stats ==
    (Handled /\ req.method = "GET" /\ parts = <<api, statsSeg>>) =>
        /\ thrown = "none"
        /\ res.status = 200
        /\ res.body.kind = "json"
        /\ res.body.value.t = "stats"
        /\ res.body.value.totalCharacters = Len(characters)
        /\ res.body.value.totalEpisodes = Len(episodes)
        /\ res.body.value.totalQuotes = Len(quotes)
        /\ res.body.value.seasons.t = "num"
        /\ \A i \in DOMAIN episodes : episodes[i].season <= res.body.value.seasons.v
        /\ episodes # <<>> =>
               \E i \in DOMAIN episodes : episodes[i].season = res.body.value.seasons.v

\* C7: filterByQuery returns the table unchanged for an absent or empty query;
\* for a non-empty query, the records, in table order, that have a field whose
\* string form contains the query, letter case ignored, numeric fields included;
\* and the empty sequence on an empty table, for every query.
C7_SubstringFilter ==
    phase = "returned" =>
        /\ (arg.query.t = "absent" \/ arg.query = Str(<<>>)) => ret = [t |-> "ok", v |-> arg.array]
        /\ (arg.query.t = "str" /\ arg.query.v # <<>>) =>
               ret = [t |-> "ok",
                      v |-> SelectSeq(arg.array, LAMBDA item : Matches(item, arg.query.v))]
        /\ arg.array = <<>> => ret = [t |-> "ok", v |-> <<>>]

\* a query that matches one record by a numeric field only and drops another
C7_Witness ==
    /\ phase = "returned"
    /\ arg.query = Str(<<"1">>)
    /\ Len(arg.array) = 2
    /\ ret.t = "ok"
    /\ Len(ret.v) = 1
    /\ ret.v[1].id = 12

=============================================================================
